---- MODULE Spec2Model ----
(***************************************************************************)
(* DeepSet<T>: a set whose membership is decided by a structural hash      *)
(* (hash-it) and deep equality (lodash isEqual).  The container keeps a    *)
(* JavaScript Map from hash to an array of values (the bucket).            *)
(*                                                                         *)
(* The model keeps the object graph of the program: bucket arrays live in  *)
(* a heap and a container's _map holds references to them, so that         *)
(* sharing between containers is something the model can express.          *)
(* A program holds its containers in the variables named in SlotSeq; the   *)
(* object under construction inside a method (newSet, result,              *)
(* differenceSet, ...) is the object named Local.  The field _size is      *)
(* written once (0) and never read: size is computed from the buckets.     *)
(***************************************************************************)
EXTENDS Integers, Sequences, FiniteSets, TLC

VARIABLES heap, sets, ghost, last

vars == <<heap, sets, ghost, last>>

\* ---------------------------------------------------------------- bounds
\* Values are 0 .. MaxVal-1; a bulk call takes at most MaxArgs values; a union
\* takes a list of at most MaxOthers containers.
MaxVal == 3
MaxArgs == 2
MaxOthers == 2

Values == 0 .. (MaxVal - 1)
SlotSeq == <<"A", "B">>
Names == {SlotSeq[i] : i \in 1 .. Len(SlotSeq)}
Local == "result"
Objs == Names \cup {Local}

SeqsUpTo(S, n) == UNION {[1 .. k -> S] : k \in 0 .. n}
ValSeqs == SeqsUpTo(Values, MaxArgs)
NameSeqs == SeqsUpTo(Names, MaxOthers)

\* ------------------------------------------------- injected capabilities
\* hash-it: deterministic, equal values hash alike, unequal values may collide
\* (here every two values of the same parity do).
hashIt(value) == value % 2

\* lodash isEqual: structural equality.
isEqual(a, b) == a = b

\* ------------------------------------------------------- JavaScript Map
\* A Map is the sequence of its entries in insertion order; an entry is
\* [key |-> hash, ref |-> the bucket array's address].
MapHas(m, k) == \E i \in 1 .. Len(m) : m[i].key = k

MapIndex(m, k) == CHOOSE i \in 1 .. Len(m) : m[i].key = k

MapGet(m, k) == m[MapIndex(m, k)].ref

\* Faulty variant of MapSet: set() of a present key moves the key to the end.
MapSet_reinsert(m, k, r) ==
  Append(SelectSeq(m, LAMBDA e : e.key # k), [key |-> k, ref |-> r])

\* set() of a present key keeps the key's position, of a new key appends it.
MapSet(m, k, r) ==
  IF MapHas(m, k) THEN [m EXCEPT ![MapIndex(m, k)].ref = r]
  ELSE Append(m, [key |-> k, ref |-> r])

MapDelete(m, k) == SelectSeq(m, LAMBDA e : e.key # k)

\* ------------------------------------------------------------ the heap
\* The address of a newly allocated array: one no array of the heap has.
NewArray(h) == CHOOSE a \in 1 .. (Cardinality(DOMAIN h) + 1) : a \notin DOMAIN h

\* Array.prototype.some / findIndex with v => _.isEqual(v, value).
someEqual(arr, value) == \E i \in 1 .. Len(arr) : isEqual(arr[i], value)

\* zero-based, -1 when there is none
findIndexEqual(arr, value) ==
  IF someEqual(arr, value)
  THEN (CHOOSE i \in 1 .. Len(arr) :
          /\ isEqual(arr[i], value)
          /\ \A j \in 1 .. (i - 1) : ~isEqual(arr[j], value)) - 1
  ELSE -1

\* Faulty variant of splice1: values.splice(index), which removes every
\* element from index on.
splice1_toEnd(arr, index) == SubSeq(arr, 1, index)

\* values.splice(index, 1), index zero-based
splice1(arr, index) ==
  [i \in 1 .. (Len(arr) - 1) |-> IF i <= index THEN arr[i] ELSE arr[i + 1]]

\* A world is the object graph: [heap |-> address -> array, sets |-> object -> _map].
EmptyMap == <<>>

\* this._map.get(hash) || []
GetOrEmpty(w, s, hash) ==
  IF MapHas(w.sets[s], hash) THEN w.heap[MapGet(w.sets[s], hash)] ELSE <<>>

\* ------------------------------------------------------ manage items
\* Faulty variant of _add: the hash is not taken of the value (every value is
\* filed under the hash of 0).
_add_constantHash(w, s, value) ==
  LET hash == hashIt(0)
      w1 == IF ~MapHas(w.sets[s], hash)
            THEN LET a == NewArray(w.heap)
                 IN  [heap |-> (a :> <<>>) @@ w.heap,
                      sets |-> [w.sets EXCEPT ![s] = MapSet(@, hash, a)]]
            ELSE w
      values == MapGet(w1.sets[s], hash)
  IN  IF ~someEqual(w1.heap[values], value)
      THEN [w1 EXCEPT !.heap[values] = Append(@, value)]
      ELSE w1

\* Faulty variant of _add: pushes the value without looking for an equal one.
_add_push(w, s, value) ==
  LET hash == hashIt(value)
      w1 == IF ~MapHas(w.sets[s], hash)
            THEN LET a == NewArray(w.heap)
                 IN  [heap |-> (a :> <<>>) @@ w.heap,
                      sets |-> [w.sets EXCEPT ![s] = MapSet(@, hash, a)]]
            ELSE w
      values == MapGet(w1.sets[s], hash)
  IN  [w1 EXCEPT !.heap[values] = Append(@, value)]

\* Faulty variant of _add: values.unshift(value) in place of values.push(value).
_add_unshift(w, s, value) ==
  LET hash == hashIt(value)
      w1 == IF ~MapHas(w.sets[s], hash)
            THEN LET a == NewArray(w.heap)
                 IN  [heap |-> (a :> <<>>) @@ w.heap,
                      sets |-> [w.sets EXCEPT ![s] = MapSet(@, hash, a)]]
            ELSE w
      values == MapGet(w1.sets[s], hash)
  IN  IF ~someEqual(w1.heap[values], value)
      THEN [w1 EXCEPT !.heap[values] = <<value>> \o @]
      ELSE w1

_add(w, s, value) ==
  LET hash == hashIt(value)
      w1 == IF ~MapHas(w.sets[s], hash)
            THEN LET a == NewArray(w.heap)
                 IN  [heap |-> (a :> <<>>) @@ w.heap,
                      sets |-> [w.sets EXCEPT ![s] = MapSet(@, hash, a)]]
            ELSE w
      values == MapGet(w1.sets[s], hash)
  IN  IF ~someEqual(w1.heap[values], value)
      THEN [w1 EXCEPT !.heap[values] = Append(@, value)]
      ELSE w1

\* Faulty variant of add: the values are taken from the last to the first.
RECURSIVE add_reversed(_, _, _)
add_reversed(w, s, vals) ==
  IF vals = <<>> THEN w
  ELSE _add(add_reversed(w, s, Tail(vals)), s, Head(vals))

RECURSIVE add(_, _, _)
add(w, s, vals) ==
  IF vals = <<>> THEN w
  ELSE add(_add(w, s, Head(vals)), s, Tail(vals))

has(w, s, value) == someEqual(GetOrEmpty(w, s, hashIt(value)), value)

\* Faulty variant of delete: the bucket is unregistered after every removal,
\* not only when it is left empty.
delete_dropBucket(w, s, value) ==
  LET hash == hashIt(value)
      values == GetOrEmpty(w, s, hash)
      index == findIndexEqual(values, value)
  IN  IF index # -1
      THEN LET a == MapGet(w.sets[s], hash)
               spliced == [w EXCEPT !.heap[a] = splice1(values, index)]
           IN  [w |-> [spliced EXCEPT !.sets[s] = MapDelete(@, hash)],
                ret |-> TRUE]
      ELSE [w |-> w, ret |-> FALSE]

\* Faulty variant of delete: the value to remove is looked for by its hash
\* alone (the first value of the bucket), not by deep equality.
delete_byHash(w, s, value) ==
  LET hash == hashIt(value)
      values == GetOrEmpty(w, s, hash)
      index == IF Len(values) > 0 THEN 0 ELSE -1
  IN  IF index # -1
      THEN LET a == MapGet(w.sets[s], hash)
               spliced == [w EXCEPT !.heap[a] = splice1(values, index)]
           IN  [w |-> IF Len(spliced.heap[a]) = 0
                      THEN [spliced EXCEPT !.sets[s] = MapDelete(@, hash)]
                      ELSE [spliced EXCEPT !.sets[s] = MapSet(@, hash, a)],
                ret |-> TRUE]
      ELSE [w |-> w, ret |-> FALSE]

\* Faulty variant of delete: the bucket stays registered when its last value
\* is removed.
delete_keepEmpty(w, s, value) ==
  LET hash == hashIt(value)
      values == GetOrEmpty(w, s, hash)
      index == findIndexEqual(values, value)
  IN  IF index # -1
      THEN LET a == MapGet(w.sets[s], hash)
               spliced == [w EXCEPT !.heap[a] = splice1(values, index)]
           IN  [w |-> [spliced EXCEPT !.sets[s] = MapSet(@, hash, a)],
                ret |-> TRUE]
      ELSE [w |-> w, ret |-> FALSE]

\* [w |-> the world after the call, ret |-> the value returned]
delete(w, s, value) ==
  LET hash == hashIt(value)
      values == GetOrEmpty(w, s, hash)
      index == findIndexEqual(values, value)
  IN  IF index # -1
      THEN LET a == MapGet(w.sets[s], hash)
               spliced == [w EXCEPT !.heap[a] = splice1(values, index)]
           IN  [w |-> IF Len(spliced.heap[a]) = 0
                      THEN [spliced EXCEPT !.sets[s] = MapDelete(@, hash)]
                      ELSE [spliced EXCEPT !.sets[s] = MapSet(@, hash, a)],
                ret |-> TRUE]
      ELSE [w |-> w, ret |-> FALSE]

clear(w, s) == [w EXCEPT !.sets[s] = EmptyMap]

RECURSIVE SumLen(_, _)
SumLen(w, m) ==
  IF m = <<>> THEN 0 ELSE Len(w.heap[Head(m).ref]) + SumLen(w, Tail(m))

size(w, s) == SumLen(w, w.sets[s])

\* ------------------------------------------------------------ iterators
RECURSIVE Flatten(_, _)
Flatten(w, m) ==
  IF m = <<>> THEN <<>> ELSE w.heap[Head(m).ref] \o Flatten(w, Tail(m))

\* the sequence the generator values() yields
values(w, s) == Flatten(w, w.sets[s])

\* ------------------------------------------------- construct and clone
\* new DeepSet(...vals): the new object is Local.
construct(w, vals) == add([w EXCEPT !.sets[Local] = EmptyMap], Local, vals)

\* _.cloneDeep of a Map: a new Map with the same keys in the same order, each
\* bucket array copied to a newly allocated array.
RECURSIVE cloneDeep(_, _)
cloneDeep(h, m) ==
  IF m = <<>> THEN [heap |-> h, map |-> <<>>]
  ELSE LET a == NewArray(h)
           rest == cloneDeep((a :> h[Head(m).ref]) @@ h, Tail(m))
       IN  [heap |-> rest.heap,
            map |-> <<[key |-> Head(m).key, ref |-> a]>> \o rest.map]

\* Faulty variant of clone: newSet._map = new Map(this._map), a copy of the
\* Map whose entries still refer to the source's bucket arrays.
clone_shallow(w, s) ==
  LET newSet == construct(w, <<>>)
  IN  [newSet EXCEPT !.sets[Local] = newSet.sets[s]]

\* s.clone(): the clone is Local.
clone(w, s) ==
  LET newSet == construct(w, <<>>)
      copy == cloneDeep(newSet.heap, newSet.sets[s])
  IN  [heap |-> copy.heap, sets |-> [newSet.sets EXCEPT ![Local] = copy.map]]

\* ------------------------------------------------------ set operations
\* for (const value of vals) if (other.has(value) === want) <Local>.add(value),
\* other read as it is when the value is reached.
RECURSIVE AddWhere(_, _, _, _)
AddWhere(w, vals, other, want) ==
  IF vals = <<>> THEN w
  ELSE AddWhere(IF has(w, other, Head(vals)) = want
                THEN add(w, Local, <<Head(vals)>>) ELSE w,
                Tail(vals), other, want)

\* Faulty variant of intersection: the test is this.has(value), which every
\* value of this passes.
intersection_ofSelf(w, self, otherSet) ==
  LET result == construct(w, <<>>)
  IN  AddWhere(result, values(result, self), self, TRUE)

\* Faulty variant of intersection: the loop runs over the other container's
\* values and tests this.has(value).
intersection_overOther(w, self, otherSet) ==
  LET result == construct(w, <<>>)
  IN  AddWhere(result, values(result, otherSet), self, TRUE)

intersection(w, self, otherSet) ==
  LET result == construct(w, <<>>)
  IN  AddWhere(result, values(result, self), otherSet, TRUE)

\* otherSets.forEach(set => { for (const value of set.values()) result.add(value) })
RECURSIVE AddAll(_, _)
AddAll(w, otherSets) ==
  IF otherSets = <<>> THEN w
  ELSE AddAll(add(w, Local, values(w, Head(otherSets))), Tail(otherSets))

\* Faulty variant of union: the result is built on this's own buckets, not
\* on a clone's.
union_inPlace(w, self, other) ==
  LET otherSets == IF other.array THEN other.sets ELSE <<other.sets[1]>>
      result == [w EXCEPT !.sets[Local] = w.sets[self]]
  IN  AddAll(result, otherSets)

\* Faulty variant of union: of an array of containers only the first is added.
union_firstOnly(w, self, other) ==
  LET otherSets == IF other.sets = <<>> THEN <<>> ELSE <<other.sets[1]>>
      result == clone(w, self)
  IN  AddAll(result, otherSets)

\* other is [array |-> Array.isArray(other), sets |-> the container(s) given]
union(w, self, other) ==
  LET otherSets == IF other.array THEN other.sets ELSE <<other.sets[1]>>
      result == clone(w, self)
  IN  AddAll(result, otherSets)

\* Faulty variant of difference: the test is other.has(value), not its
\* negation.
difference_inverted(w, self, other) ==
  LET differenceSet == construct(w, <<>>)
  IN  AddWhere(differenceSet, values(differenceSet, self), other, TRUE)

difference(w, self, other) ==
  LET differenceSet == construct(w, <<>>)
  IN  AddWhere(differenceSet, values(differenceSet, self), other, FALSE)

\* Faulty variant of symmetricDifference: the second loop, over other's
\* values, is missing.
symmetricDifference_oneSided(w, self, other) ==
  LET symmetricDifferenceSet == construct(w, <<>>)
  IN  AddWhere(symmetricDifferenceSet,
               values(symmetricDifferenceSet, self), other, FALSE)

symmetricDifference(w, self, other) ==
  LET symmetricDifferenceSet == construct(w, <<>>)
      first == AddWhere(symmetricDifferenceSet,
                        values(symmetricDifferenceSet, self), other, FALSE)
  IN  AddWhere(first, values(first, other), self, FALSE)

isSubsetOf(w, self, other) ==
  \A i \in 1 .. Len(values(w, self)) : has(w, other, values(w, self)[i])

\* Faulty variant of isSupersetOf: the loop of isSubsetOf, over this's values
\* with the test other.has(item).
isSupersetOf_asSubset(w, self, other) ==
  \A i \in 1 .. Len(values(w, self)) : has(w, other, values(w, self)[i])

isSupersetOf(w, self, other) ==
  \A i \in 1 .. Len(values(w, other)) : has(w, self, values(w, other)[i])

isDisjointFrom(w, self, other) ==
  size(union(w, self, [array |-> FALSE, sets |-> <<other>>]), Local) = 0

\* ------------------------------------------------ higher-order functions
\* What a callback is passed: the value, the traversal index and the
\* container.
Args(value, index, set) == [value |-> value, index |-> index, set |-> set]

\* The callbacks of a program.  A PredicateFn is the set of the values it
\* accepts.  The MapFn returns what it was passed, the FlatMapFn an array of
\* none, one or two copies of it, and the ReduceFn the accumulator with what
\* it was passed appended, so that the results tell every call.  No callback
\* changes a container.
PredicateFns == SUBSET Values
PredicateFn(cb, a) == a.value \in cb
MapFn(a) == a
FlatMapFn(a) == [j \in 1 .. (a.value % 3) |-> a]
ReduceFn(previousValue, a) == Append(previousValue, a)

\* Every method returns calls, the callback's invocations in order, ret, the
\* boolean returned (FALSE when none is), and out, the array or accumulator
\* returned; find returns <<value>>, or <<>> for undefined.
Traversed(calls, ret, out) == [calls |-> calls, ret |-> ret, out |-> out]

RECURSIVE forEachLoop(_, _, _)
forEachLoop(vals, index, s) ==
  IF vals = <<>> THEN <<>>
  ELSE <<Args(Head(vals), index, s)>> \o forEachLoop(Tail(vals), index + 1, s)

forEach(w, s) == Traversed(forEachLoop(values(w, s), 0, s), FALSE, <<>>)

RECURSIVE mapLoop(_, _, _)
mapLoop(vals, index, s) ==
  IF vals = <<>> THEN Traversed(<<>>, FALSE, <<>>)
  ELSE LET a == Args(Head(vals), index, s)
           r == mapLoop(Tail(vals), index + 1, s)
       IN  Traversed(<<a>> \o r.calls, FALSE, <<MapFn(a)>> \o r.out)

map(w, s) == mapLoop(values(w, s), 0, s)

RECURSIVE filterLoop(_, _, _, _)
filterLoop(vals, index, s, cb) ==
  IF vals = <<>> THEN Traversed(<<>>, FALSE, <<>>)
  ELSE LET a == Args(Head(vals), index, s)
           r == filterLoop(Tail(vals), index + 1, s, cb)
       IN  Traversed(<<a>> \o r.calls, FALSE,
                     IF PredicateFn(cb, a) THEN <<Head(vals)>> \o r.out ELSE r.out)

filter(w, s, cb) == filterLoop(values(w, s), 0, s, cb)

RECURSIVE reduceLoop(_, _, _, _)
reduceLoop(vals, index, s, accumulator) ==
  IF vals = <<>> THEN Traversed(<<>>, FALSE, accumulator)
  ELSE LET a == Args(Head(vals), index, s)
           r == reduceLoop(Tail(vals), index + 1, s, ReduceFn(accumulator, a))
       IN  Traversed(<<a>> \o r.calls, FALSE, r.out)

reduce(w, s, initialValue) == reduceLoop(values(w, s), 0, s, initialValue)

RECURSIVE someLoop(_, _, _, _)
someLoop(vals, index, s, cb) ==
  IF vals = <<>> THEN Traversed(<<>>, FALSE, <<>>)
  ELSE LET a == Args(Head(vals), index, s)
           r == someLoop(Tail(vals), index + 1, s, cb)
       IN  IF PredicateFn(cb, a) THEN Traversed(<<a>>, TRUE, <<>>)
           ELSE Traversed(<<a>> \o r.calls, r.ret, <<>>)

some(w, s, cb) == someLoop(values(w, s), 0, s, cb)

RECURSIVE everyLoop(_, _, _, _)
everyLoop(vals, index, s, cb) ==
  IF vals = <<>> THEN Traversed(<<>>, TRUE, <<>>)
  ELSE LET a == Args(Head(vals), index, s)
           r == everyLoop(Tail(vals), index + 1, s, cb)
       IN  IF ~PredicateFn(cb, a) THEN Traversed(<<a>>, FALSE, <<>>)
           ELSE Traversed(<<a>> \o r.calls, r.ret, <<>>)

every(w, s, cb) == everyLoop(values(w, s), 0, s, cb)

\* Faulty variant of find's loop: it runs to the end and returns the last
\* value the predicate accepts.
RECURSIVE findLoop_toEnd(_, _, _, _)
findLoop_toEnd(vals, index, s, cb) ==
  IF vals = <<>> THEN Traversed(<<>>, FALSE, <<>>)
  ELSE LET a == Args(Head(vals), index, s)
           r == findLoop_toEnd(Tail(vals), index + 1, s, cb)
       IN  Traversed(<<a>> \o r.calls, FALSE,
                     IF r.out = <<>> /\ PredicateFn(cb, a) THEN <<Head(vals)>>
                     ELSE r.out)

RECURSIVE findLoop(_, _, _, _)
findLoop(vals, index, s, cb) ==
  IF vals = <<>> THEN Traversed(<<>>, FALSE, <<>>)
  ELSE LET a == Args(Head(vals), index, s)
           r == findLoop(Tail(vals), index + 1, s, cb)
       IN  IF PredicateFn(cb, a) THEN Traversed(<<a>>, FALSE, <<Head(vals)>>)
           ELSE Traversed(<<a>> \o r.calls, FALSE, r.out)

find(w, s, cb) == findLoop(values(w, s), 0, s, cb)

RECURSIVE flatMapLoop(_, _, _)
flatMapLoop(vals, index, s) ==
  IF vals = <<>> THEN Traversed(<<>>, FALSE, <<>>)
  ELSE LET a == Args(Head(vals), index, s)
           r == flatMapLoop(Tail(vals), index + 1, s)
       IN  Traversed(<<a>> \o r.calls, FALSE, FlatMapFn(a) \o r.out)

flatMap(w, s) == flatMapLoop(values(w, s), 0, s)

\* ------------------------------------------------------- program state
\* dst = <the object a method returned>: the variable dst now names Local's
\* object, and the method's local variable is gone.
Bind(w, dst) ==
  [w EXCEPT !.sets = [@ EXCEPT ![dst] = w.sets[Local], ![Local] = EmptyMap]]

RECURSIVE Dedup(_)
Dedup(q) ==
  IF q = <<>> THEN <<>>
  ELSE LET r == Dedup(Tail(q))
       IN  <<Head(q)>> \o SelectSeq(r, LAMBDA x : x # Head(q))

RECURSIVE RefsOf(_, _)
RefsOf(w, slots) ==
  IF slots = <<>> THEN <<>>
  ELSE [i \in 1 .. Len(w.sets[Head(slots)]) |-> w.sets[Head(slots)][i].ref]
         \o RefsOf(w, Tail(slots))

\* Garbage collection: arrays no container reaches are dropped and the others
\* are renumbered in the order the program's variables reach them.  Addresses
\* are not observable by the program, so this changes no behaviour.
Canon(w) ==
  LET order == Dedup(RefsOf(w, SlotSeq \o <<Local>>))
      idx(a) == CHOOSE i \in 1 .. Len(order) : order[i] = a
  IN  [heap |-> [i \in 1 .. Len(order) |-> w.heap[order[i]]],
       sets |-> [s \in Objs |->
                   [i \in 1 .. Len(w.sets[s]) |->
                      [key |-> w.sets[s][i].key, ref |-> idx(w.sets[s][i].ref)]]]]

World == [heap |-> heap, sets |-> sets]

\* ------------------------------------------------------- observations
\* the buckets of a container: hash and contents, in Map order
Buckets(w, s) ==
  [i \in 1 .. Len(w.sets[s]) |->
     [key |-> w.sets[s][i].key, vals |-> w.heap[w.sets[s][i].ref]]]

Range(q) == {q[i] : i \in 1 .. Len(q)}

\* the values v with s.has(v)
Members(w, s) == {v \in Values : has(w, s, v)}

\* ------------------------------------------------------------ history
\* last: the call made last, with the boolean it returned (ret, FALSE when it
\* returns none) and the buckets every variable's container had before it
\* (pre); op is "idle" when no call is on record.  prev is the record of the
\* call before it, when that call is still on record.
Snapshot == [s \in Names |-> Buckets(World, s)]

NoCall ==
  [op |-> "idle", self |-> "", vals |-> <<>>, others |-> <<>>, dst |-> "",
   ret |-> FALSE, pre |-> <<>>, cb |-> {}, calls |-> <<>>, out |-> <<>>]

Record(c, prev) ==
  [op |-> c.op, self |-> c.self, vals |-> c.vals, others |-> c.others,
   dst |-> c.dst, ret |-> c.ret, pre |-> c.pre, cb |-> c.cb,
   calls |-> c.calls, out |-> c.out, prev |-> prev]

Idle == Record(NoCall, NoCall)

Call(op, self, vals, others, dst, ret) ==
  Record([op |-> op, self |-> self, vals |-> vals, others |-> others,
          dst |-> dst, ret |-> ret, pre |-> Snapshot,
          cb |-> {}, calls |-> <<>>, out |-> <<>>],
         [f \in DOMAIN NoCall |-> last[f]])

\* the record of a higher-order function's call: cb is the predicate passed
\* ({} when the method takes none), calls the callback's invocations, out the
\* array returned
CallWith(op, self, cb, r) ==
  Record([op |-> op, self |-> self, vals |-> <<>>, others |-> <<>>,
          dst |-> "", ret |-> r.ret, pre |-> Snapshot,
          cb |-> cb, calls |-> r.calls, out |-> r.out],
         [f \in DOMAIN NoCall |-> last[f]])

\* ghost, for each variable: mem, the mathematical set of the values added and
\* not since deleted or cleared; ins, those values in the order of their
\* insertion; keys, the hashes that some member has, in the order in which
\* they came to have one.  Only the actions called with rec follow it.
NoGhost == [mem |-> {}, ins |-> <<>>, keys |-> <<>>]

GhostAdd1(g, v) ==
  IF v \in Range(g.ins) THEN g
  ELSE [mem |-> g.mem \cup {v},
        ins |-> Append(g.ins, v),
        keys |-> IF hashIt(v) \in Range(g.keys) THEN g.keys
                 ELSE Append(g.keys, hashIt(v))]

RECURSIVE GhostAdd(_, _)
GhostAdd(g, vals) ==
  IF vals = <<>> THEN g ELSE GhostAdd(GhostAdd1(g, Head(vals)), Tail(vals))

GhostDelete(g, v) ==
  LET ins == SelectSeq(g.ins, LAMBDA x : x # v)
  IN  [mem |-> g.mem \ {v},
       ins |-> ins,
       keys |-> SelectSeq(g.keys, LAMBDA h : \E i \in 1 .. Len(ins) : hashIt(ins[i]) = h)]

Ghost(rec, s, g) == ghost' = IF rec THEN [ghost EXCEPT ![s] = g] ELSE ghost

\* --------------------------------------------------------------- actions
Init ==
  /\ heap = <<>>
  /\ sets = [s \in Objs |-> EmptyMap]
  /\ ghost = [s \in Names |-> NoGhost]
  /\ last = Idle

Commit(w) ==
  LET c == Canon(w)
  IN  /\ heap' = c.heap
      /\ sets' = c.sets

\* dst = new DeepSet(...vals)
Construct(rec, dst, vals) ==
  /\ Commit(Bind(construct(World, vals), dst))
  /\ Ghost(rec, dst, GhostAdd(NoGhost, vals))
  /\ last' = Call("new", "", vals, <<>>, dst, FALSE)

\* s.add(...vals)
Add(rec, s, vals) ==
  /\ Commit(add(World, s, vals))
  /\ Ghost(rec, s, GhostAdd(ghost[s], vals))
  /\ last' = Call("add", s, vals, <<>>, "", FALSE)

\* s.delete(v)
Delete(rec, s, v) ==
  LET r == delete(World, s, v)
  IN  /\ Commit(r.w)
      /\ Ghost(rec, s, GhostDelete(ghost[s], v))
      /\ last' = Call("delete", s, <<v>>, <<>>, "", r.ret)

\* s.clear()
Clear(rec, s) ==
  /\ Commit(clear(World, s))
  /\ Ghost(rec, s, NoGhost)
  /\ last' = Call("clear", s, <<>>, <<>>, "", FALSE)

\* s.has(v)
Has(s, v) ==
  /\ last' = Call("has", s, <<v>>, <<>>, "", has(World, s, v))
  /\ UNCHANGED <<heap, sets, ghost>>

\* dst = src.clone()
Clone(src, dst) ==
  /\ Commit(Bind(clone(World, src), dst))
  /\ last' = Call("clone", src, <<>>, <<>>, dst, FALSE)
  /\ UNCHANGED ghost

\* dst = self.intersection(other)
Intersection(self, other, dst) ==
  /\ Commit(Bind(intersection(World, self, other), dst))
  /\ last' = Call("intersection", self, <<>>, <<other>>, dst, FALSE)
  /\ UNCHANGED ghost

\* dst = self.union(other), other a container or an array of containers
Union(self, other, dst) ==
  /\ Commit(Bind(union(World, self, other), dst))
  /\ last' = Call(IF other.array THEN "unionAll" ELSE "union", self, <<>>,
                  other.sets, dst, FALSE)
  /\ UNCHANGED ghost

\* dst = self.difference(other)
Difference(self, other, dst) ==
  /\ Commit(Bind(difference(World, self, other), dst))
  /\ last' = Call("difference", self, <<>>, <<other>>, dst, FALSE)
  /\ UNCHANGED ghost

\* dst = self.symmetricDifference(other)
SymmetricDifference(self, other, dst) ==
  /\ Commit(Bind(symmetricDifference(World, self, other), dst))
  /\ last' = Call("symmetricDifference", self, <<>>, <<other>>, dst, FALSE)
  /\ UNCHANGED ghost

\* self.isSubsetOf(other)
IsSubsetOf(self, other) ==
  /\ last' = Call("isSubsetOf", self, <<>>, <<other>>, "",
                  isSubsetOf(World, self, other))
  /\ UNCHANGED <<heap, sets, ghost>>

\* self.isSupersetOf(other)
IsSupersetOf(self, other) ==
  /\ last' = Call("isSupersetOf", self, <<>>, <<other>>, "",
                  isSupersetOf(World, self, other))
  /\ UNCHANGED <<heap, sets, ghost>>

\* self.isDisjointFrom(other); the union it builds is garbage when it returns,
\* whatever it did to the operands stays
IsDisjointFrom(self, other) ==
  /\ Commit([union(World, self, [array |-> FALSE, sets |-> <<other>>])
               EXCEPT !.sets[Local] = EmptyMap])
  /\ last' = Call("isDisjointFrom", self, <<>>, <<other>>, "",
                  isDisjointFrom(World, self, other))
  /\ UNCHANGED ghost

\* s.forEach(cb)
ForEach(s) ==
  /\ last' = CallWith("forEach", s, {}, forEach(World, s))
  /\ UNCHANGED <<heap, sets, ghost>>

\* s.map(cb)
Map(s) ==
  /\ last' = CallWith("map", s, {}, map(World, s))
  /\ UNCHANGED <<heap, sets, ghost>>

\* s.filter(cb)
Filter(s, cb) ==
  /\ last' = CallWith("filter", s, cb, filter(World, s, cb))
  /\ UNCHANGED <<heap, sets, ghost>>

\* s.reduce(cb, [])
Reduce(s) ==
  /\ last' = CallWith("reduce", s, {}, reduce(World, s, <<>>))
  /\ UNCHANGED <<heap, sets, ghost>>

\* s.some(cb)
Some(s, cb) ==
  /\ last' = CallWith("some", s, cb, some(World, s, cb))
  /\ UNCHANGED <<heap, sets, ghost>>

\* s.every(cb)
Every(s, cb) ==
  /\ last' = CallWith("every", s, cb, every(World, s, cb))
  /\ UNCHANGED <<heap, sets, ghost>>

\* s.find(cb)
Find(s, cb) ==
  /\ last' = CallWith("find", s, cb, find(World, s, cb))
  /\ UNCHANGED <<heap, sets, ghost>>

\* s.flatMap(cb)
FlatMap(s) ==
  /\ last' = CallWith("flatMap", s, {}, flatMap(World, s))
  /\ UNCHANGED <<heap, sets, ghost>>

\* The caller has taken what the call returned: the record of the call is dropped.
Return ==
  /\ last.op # "idle"
  /\ last' = Idle
  /\ UNCHANGED <<heap, sets, ghost>>

\* the arguments union takes: one container, or an array of containers
UnionArgs ==
  {[array |-> FALSE, sets |-> <<o>>] : o \in Names}
    \cup {[array |-> TRUE, sets |-> q] : q \in NameSeqs}

Call1 ==
  \/ \E dst \in Names : Construct(FALSE, dst, <<>>)
  \/ \E s \in Names, v \in Values : Add(FALSE, s, <<v>>)
  \/ \E s \in Names, v \in Values : Delete(FALSE, s, v)
  \/ \E s \in Names : Clear(FALSE, s)
  \/ \E s \in Names, v \in Values : Has(s, v)
  \/ \E src \in Names, dst \in Names : Clone(src, dst)
  \/ \E self \in Names, other \in Names, dst \in Names : Intersection(self, other, dst)
  \/ \E self \in Names, other \in UnionArgs, dst \in Names : Union(self, other, dst)
  \/ \E self \in Names, other \in Names, dst \in Names : Difference(self, other, dst)
  \/ \E self \in Names, other \in Names, dst \in Names :
       SymmetricDifference(self, other, dst)
  \/ \E self \in Names, other \in Names : IsSubsetOf(self, other)
  \/ \E self \in Names, other \in Names : IsSupersetOf(self, other)
  \/ \E self \in Names, other \in Names : IsDisjointFrom(self, other)

Call2 ==
  \/ \E s \in Names, v \in Values : Add(FALSE, s, <<v>>)
  \/ \E s \in Names, v \in Values : Delete(FALSE, s, v)
  \/ \E s \in Names : Clear(FALSE, s)

\* A program with the containers A and B: every operation, on either, one
\* value at a time.  The record of a call is dropped before the next call,
\* except that a clone or a union stays on record (as last.prev) while the
\* call after it changes a container.
Next ==
  \/ last.op = "idle" /\ Call1
  \/ last.op \in {"clone", "union"} /\ last.prev.op = "idle" /\ Call2
  \/ Return

Spec == Init /\ [][Next]_vars

\* A program with the one container A, built and changed by new, add, delete
\* and clear, several values at a time, and traversed by the higher-order
\* functions.  The record of a new, add, delete, clear or has stays (as
\* last.prev) while the call after it adds, deletes or looks up one value.
One == SlotSeq[1]

Traversals == {"forEach", "map", "filter", "reduce", "some", "every", "find", "flatMap"}

CallSeq3 ==
  \/ ForEach(One)
  \/ Map(One)
  \/ \E cb \in PredicateFns : Filter(One, cb)
  \/ Reduce(One)
  \/ \E cb \in PredicateFns : Some(One, cb)
  \/ \E cb \in PredicateFns : Every(One, cb)
  \/ \E cb \in PredicateFns : Find(One, cb)
  \/ FlatMap(One)

CallSeq1 ==
  \/ \E vals \in ValSeqs : Construct(TRUE, One, vals)
  \/ \E vals \in ValSeqs : Add(TRUE, One, vals)
  \/ \E v \in Values : Delete(TRUE, One, v)
  \/ Clear(TRUE, One)
  \/ \E v \in Values : Has(One, v)

CallSeq2 ==
  \/ \E v \in Values : Add(TRUE, One, <<v>>)
  \/ \E v \in Values : Delete(TRUE, One, v)
  \/ \E v \in Values : Has(One, v)

NextSeq ==
  \/ last.op = "idle" /\ CallSeq1
  \/ last.op \notin Traversals \cup {"idle"} /\ last.prev.op = "idle" /\ CallSeq2
  \/ last.op = "idle" /\ CallSeq3
  \/ Return

SpecSeq == Init /\ [][NextSeq]_vars

\* ------------------------------------------------- reading the records
\* What the program can observe of a container, read off recorded buckets b.
RECURSIVE SnapValues(_)
SnapValues(b) == IF b = <<>> THEN <<>> ELSE Head(b).vals \o SnapValues(Tail(b))

SnapSize(b) == Len(SnapValues(b))

SnapHas(b, v) ==
  \E i \in 1 .. Len(b) : b[i].key = hashIt(v) /\ someEqual(b[i].vals, v)

SnapMembers(b) == {v \in Values : SnapHas(b, v)}

NoDuplicates(q) == \A i, j \in 1 .. Len(q) : i # j => ~isEqual(q[i], q[j])

Mutations == {"add", "delete", "clear"}
Derivations == {"intersection", "union", "unionAll", "difference", "symmetricDifference"}
Predicates == {"isSubsetOf", "isSupersetOf", "isDisjointFrom"}

\* Some bucket of the container holds two values (a hash collision).
Collides(w, s) == \E i \in 1 .. Len(w.sets[s]) : Len(w.heap[w.sets[s][i].ref]) >= 2

\* The program state a record was taken in: every variable's container with
\* the buckets recorded in pre, each bucket an array of its own.
RECURSIVE SnapHeap(_, _)
SnapHeap(pre, slots) ==
  IF slots = <<>> THEN <<>>
  ELSE [i \in 1 .. Len(pre[Head(slots)]) |-> pre[Head(slots)][i].vals]
         \o SnapHeap(pre, Tail(slots))

SnapOffset(pre, s) ==
  LET k == CHOOSE i \in 1 .. Len(SlotSeq) : SlotSeq[i] = s
  IN  Len(SnapHeap(pre, SubSeq(SlotSeq, 1, k - 1)))

SnapWorld(pre) ==
  [heap |-> SnapHeap(pre, SlotSeq),
   sets |-> [s \in Objs |->
               IF s = Local THEN EmptyMap
               ELSE [i \in 1 .. Len(pre[s]) |->
                       [key |-> pre[s][i].key, ref |-> SnapOffset(pre, s) + i]]]]

Min(a, b) == IF a <= b THEN a ELSE b

\* ------------------------------------------------------------------ C1
\* C1: A.isDisjointFrom(B) returns true if and only if no value is a member
\* of both A and B.
C1_DisjointIffNoSharedValue ==
  last.op = "isDisjointFrom" =>
    (last.ret <=>
       SnapMembers(last.pre[last.self]) \cap SnapMembers(last.pre[last.others[1]]) = {})

\* ------------------------------------------------------------------ C2
\* C2: after any sequence of new/add/delete/clear calls, has(v) is true
\* exactly for the values added and not since deleted or cleared, and size is
\* their number.
C2_BehavesAsSet ==
  /\ \A v \in Values : has(World, One, v) <=> v \in ghost[One].mem
  /\ size(World, One) = Cardinality(ghost[One].mem)

\* a delete has just removed one of two values that collide, a third remains
C2_Witness ==
  /\ last.op = "delete" /\ last.ret
  /\ Len(last.pre[One]) = 2
  /\ \E i \in 1 .. 2 :
       /\ last.pre[One][i].key = hashIt(last.vals[1])
       /\ Len(last.pre[One][i].vals) = 2
  /\ size(World, One) = 2
  /\ ~has(World, One, last.vals[1])

\* ------------------------------------------------------------------ C3
\* C3: in every reachable state no two values stored in the same bucket are
\* deep-equal, and no value is stored twice in a container.
C3_BucketsHoldNoEqualValues ==
  \A s \in Names :
    /\ \A i \in 1 .. Len(sets[s]) : NoDuplicates(heap[sets[s][i].ref])
    /\ NoDuplicates(values(World, s))

\* an add of a value equal to a stored one, into a bucket of two
C3_Witness ==
  /\ last.op = "add"
  /\ SnapHas(last.pre[last.self], last.vals[1])
  /\ Len(GetOrEmpty(World, last.self, hashIt(last.vals[1]))) = 2

\* ------------------------------------------------------------------ C4
\* C4: values() yields the buckets in the order in which their hashes came
\* into the container, and within a bucket the values in insertion order.
ByKeys(keys, ins) ==
  SnapValues([i \in 1 .. Len(keys) |->
                [key |-> keys[i],
                 vals |-> SelectSeq(ins, LAMBDA v : hashIt(v) = keys[i])]])

C5_AddIsIdempotent ==
  /\ (last.op = "add" /\ last.prev.op = "add" /\ last.vals = last.prev.vals
      /\ last.self = last.prev.self)
       => /\ size(World, last.self) = SnapSize(last.pre[last.self])
          /\ Members(World, last.self) = SnapMembers(last.pre[last.self])
  /\ (last.op = "add" /\ Len(last.vals) = 1
      /\ SnapHas(last.pre[last.self], last.vals[1]))
       => Snapshot = last.pre

\* the second add(v) of two, v sharing its bucket with another value
C5_Witness ==
  /\ last.op = "add" /\ last.prev.op = "add" /\ last.vals = last.prev.vals
  /\ Len(last.vals) = 1
  /\ ~SnapHas(last.prev.pre[One], last.vals[1])
  /\ Len(GetOrEmpty(World, One, hashIt(last.vals[1]))) = 2

\* ------------------------------------------------------------------ C6
AddThenDelete ==
  /\ last.op = "delete" /\ last.prev.op = "add"
  /\ last.prev.vals = last.vals
  /\ last.self = last.prev.self

\* C6 as stated: for any v, add(v); delete(v) returns true from delete and
\* restores the size and the membership the container had before the add.
C6_AddDeleteRestores ==
  AddThenDelete =>
    /\ last.ret
    /\ size(World, last.self) = SnapSize(last.prev.pre[last.self])
    /\ Members(World, last.self) = SnapMembers(last.prev.pre[last.self])

\* C6 amended: the same, for a value v that is not a member before the add.
C6_AddDeleteRestoresIfAbsent ==
  (AddThenDelete /\ ~SnapHas(last.prev.pre[last.self], last.vals[1])) =>
    /\ last.ret
    /\ size(World, last.self) = SnapSize(last.prev.pre[last.self])
    /\ Members(World, last.self) = SnapMembers(last.prev.pre[last.self])

\* add(v); delete(v) of an absent v whose hash a stored value has
C6_Witness ==
  /\ AddThenDelete
  /\ ~SnapHas(last.prev.pre[One], last.vals[1])
  /\ Len(GetOrEmpty(World, One, hashIt(last.vals[1]))) >= 1
  /\ size(World, One) = 2

\* ------------------------------------------------------------------ C7
\* C7: delete(v) of a value that is not a member returns false and changes
\* nothing: buckets, size, membership and iteration order stay as they were.
C7_DeleteAbsentChangesNothing ==
  (last.op = "delete" /\ ~SnapHas(last.pre[last.self], last.vals[1])) =>
    /\ ~last.ret
    /\ Snapshot = last.pre
    /\ size(World, last.self) = SnapSize(last.pre[last.self])
    /\ Members(World, last.self) = SnapMembers(last.pre[last.self])
    /\ values(World, last.self) = SnapValues(last.pre[last.self])

\* a delete of an absent value whose hash a stored value has
C7_Witness ==
  /\ last.op = "delete" /\ ~last.ret
  /\ Len(GetOrEmpty(World, last.self, hashIt(last.vals[1]))) >= 1
  /\ Len(sets[last.self]) = 2

\* ------------------------------------------------------------------ C8
\* Every add, delete and clear leaves the container of every other variable
\* as it was.
MutationFrame ==
  last.op \in Mutations =>
    \A s \in Names \ {last.self} : Buckets(World, s) = last.pre[s]

\* C8: clone() returns a container with the members of its source in the same
\* iteration order, the source is unchanged, and from then on no add, delete
\* or clear on the one changes the other.
C8_CloneIsIndependentCopy ==
  /\ last.op = "clone" =>
       /\ values(World, last.dst) = SnapValues(last.pre[last.self])
       /\ Members(World, last.dst) = SnapMembers(last.pre[last.self])
       /\ Buckets(World, last.dst) = last.pre[last.self]
       /\ \A s \in Names \ {last.dst} : Buckets(World, s) = last.pre[s]
  /\ MutationFrame

\* a value was added to a bucket the clone took over from its source
C8_Witness ==
  /\ last.prev.op = "clone" /\ last.prev.dst # last.prev.self
  /\ last.op = "add" /\ last.self = last.prev.dst
  /\ SnapHas(last.pre[last.prev.self], 0)
  /\ last.vals = <<2>>
  /\ values(World, last.self) = <<0, 2>>
  /\ values(World, last.prev.self) = <<0>>

RECURSIVE MembersOfAll(_, _)
MembersOfAll(pre, others) ==
  IF others = <<>> THEN {}
  ELSE SnapMembers(pre[Head(others)]) \cup MembersOfAll(pre, Tail(others))

\* C10: A.union(B) and A.union([B1..Bn]) hold exactly the values that are
\* members of A or of one of the others, each once.
C10_UnionHoldsMembersOfAll ==
  last.op \in {"union", "unionAll"} =>
    /\ Members(World, last.dst)
         = SnapMembers(last.pre[last.self]) \cup MembersOfAll(last.pre, last.others)
    /\ Range(values(World, last.dst)) = Members(World, last.dst)
    /\ NoDuplicates(values(World, last.dst))
    /\ size(World, last.dst) = Cardinality(Members(World, last.dst))

\* a union with an array of two containers, the second bringing values the
\* first does not have
C10_Witness ==
  /\ last.op = "unionAll" /\ Len(last.others) = 2
  /\ last.others[1] = last.self /\ last.others[2] # last.self
  /\ ~(SnapMembers(last.pre[last.others[2]]) \subseteq SnapMembers(last.pre[last.self]))
  /\ ~(SnapMembers(last.pre[last.self]) \subseteq SnapMembers(last.pre[last.others[2]]))
  /\ size(World, last.dst) >= 3

\* ----------------------------------------------------------------- C11
\* C11: A.union(B).size = A.size + B.size - A.intersection(B).size, and
\* A.intersection(B).size is at most the smaller of A.size and B.size.
C11_UnionSizeLaw ==
  /\ last.op = "union" =>
       size(World, last.dst)
         = SnapSize(last.pre[last.self]) + SnapSize(last.pre[last.others[1]])
             - size(intersection(SnapWorld(last.pre), last.self, last.others[1]), Local)
  /\ last.op = "intersection" =>
       size(World, last.dst)
         <= Min(SnapSize(last.pre[last.self]), SnapSize(last.pre[last.others[1]]))

\* a union of two containers that share one value and have one of their own
\* each
C11_Witness ==
  /\ last.op = "union" /\ last.others[1] # last.self
  /\ SnapSize(last.pre[last.self]) = 2
  /\ SnapSize(last.pre[last.others[1]]) = 2
  /\ size(intersection(SnapWorld(last.pre), last.self, last.others[1]), Local) = 1
  /\ size(World, last.dst) = 3

\* ----------------------------------------------------------------- C12
\* The program state w with two more variables, U and I, for the containers
\* an expression holds on its way.
WithTemps(w) == [w EXCEPT !.sets = @ @@ [t \in {"U", "I"} |-> EmptyMap]]

\* a.union(b).difference(a.intersection(b)), evaluated in state w
UnionLessIntersection(w, a, b) ==
  LET u == Bind(union(WithTemps(w), a, [array |-> FALSE, sets |-> <<b>>]), "U")
      i == Bind(intersection(u, a, b), "I")
  IN  difference(i, "U", "I")

\* C12: A.symmetricDifference(B) has the same members as
\* A.union(B).difference(A.intersection(B)).
C12_SymmetricDifferenceByUnion ==
  last.op = "symmetricDifference" =>
    Members(World, last.dst)
      = Members(UnionLessIntersection(SnapWorld(last.pre), last.self, last.others[1]),
                Local)

\* a symmetric difference of two containers that share a value and each have
\* a value of their own
C12_Witness ==
  /\ last.op = "symmetricDifference"
  /\ SnapMembers(last.pre[last.self]) = {0, 1}
  /\ SnapMembers(last.pre[last.others[1]]) = {1, 2}
  /\ Members(World, last.dst) = {0, 2}

\* ----------------------------------------------------------------- C13
\* C13: A.difference(B) and B.difference(A) have no member in common, and
\* their sizes and the size of A.intersection(B) add up to the size of
\* A.union(B).
C13_DifferencesPartitionUnion ==
  last.op = "difference" =>
    LET w == SnapWorld(last.pre)
        a == last.self
        b == last.others[1]
    IN  /\ Members(World, last.dst) \cap Members(difference(w, b, a), Local) = {}
        /\ size(World, last.dst) + size(difference(w, b, a), Local)
              + size(intersection(w, a, b), Local)
             = size(union(w, a, [array |-> FALSE, sets |-> <<b>>]), Local)

\* a difference of two containers that share a value and each have a value
\* of their own
C13_Witness ==
  /\ last.op = "difference"
  /\ SnapMembers(last.pre[last.self]) = {0, 2}
  /\ SnapMembers(last.pre[last.others[1]]) = {1, 2}
  /\ Members(World, last.dst) = {0}
  /\ size(World, last.dst) = 1

\* ----------------------------------------------------------------- C14
\* C14: A.intersection(B) has exactly the values that are members of both,
\* and iterates them in A's order: its sequence is A's sequence restricted to
\* the members of B, colliding hashes included.
C14_IntersectionKeepsOrder ==
  last.op = "intersection" =>
    /\ Members(World, last.dst)
         = SnapMembers(last.pre[last.self]) \cap SnapMembers(last.pre[last.others[1]])
    /\ values(World, last.dst)
         = SelectSeq(SnapValues(last.pre[last.self]),
                     LAMBDA v : SnapHas(last.pre[last.others[1]], v))

\* A iterates 0, 2, 1 (0 and 2 collide), B lacks 0 and iterates 1, 2: the
\* intersection iterates 2, 1
C14_Witness ==
  /\ last.op = "intersection"
  /\ SnapValues(last.pre[last.self]) = <<0, 2, 1>>
  /\ SnapValues(last.pre[last.others[1]]) = <<1, 2>>
  /\ values(World, last.dst) = <<2, 1>>

\* ----------------------------------------------------------------- C15
\* C15: A.isSubsetOf(B) is true exactly when every member of A is a member
\* of B (so it is true for an empty A), A.isSupersetOf(B) exactly when every
\* member of B is a member of A, and A.isSubsetOf(B) = B.isSupersetOf(A).
C15_SubsetAndSuperset ==
  /\ last.op = "isSubsetOf" =>
       /\ last.ret <=> SnapMembers(last.pre[last.self])
                         \subseteq SnapMembers(last.pre[last.others[1]])
       /\ last.ret <=> isSupersetOf(SnapWorld(last.pre), last.others[1], last.self)
  /\ last.op = "isSupersetOf" =>
       /\ last.ret <=> SnapMembers(last.pre[last.others[1]])
                         \subseteq SnapMembers(last.pre[last.self])
       /\ last.ret <=> isSubsetOf(SnapWorld(last.pre), last.others[1], last.self)

\* {0} is found to be a subset of {0, 2}, which is no subset of it
C15_Witness ==
  /\ last.op = "isSubsetOf" /\ last.ret
  /\ SnapMembers(last.pre[last.self]) = {0}
  /\ SnapMembers(last.pre[last.others[1]]) = {0, 2}
  /\ ~isSubsetOf(World, last.others[1], last.self)

\* ----------------------------------------------------------------- C16
RECURSIVE ValuesOfAll(_, _)
ValuesOfAll(pre, others) ==
  IF others = <<>> THEN <<>>
  ELSE SnapValues(pre[Head(others)]) \o ValuesOfAll(pre, Tail(others))

\* the values the others bring that self does not have, each once, in the
\* order supplied
NewValues(pre, self, others) ==
  SelectSeq(Dedup(ValuesOfAll(pre, others)), LAMBDA v : ~SnapHas(pre[self], v))

\* C16: A.union(others) iterates A's own sequence followed by the values
\* newly introduced from the others in the order supplied; A's sequence is a
\* prefix of the union's.
C16_UnionOrder ==
  last.op \in {"union", "unionAll"} =>
    values(World, last.dst)
      = SnapValues(last.pre[last.self]) \o NewValues(last.pre, last.self, last.others)

\* ----------------------------------------------------------------- C17
\* C17: A.symmetricDifference(B) iterates the sequence of A.difference(B)
\* followed by the sequence of B.difference(A).
C17_SymmetricDifferenceOrder ==
  last.op = "symmetricDifference" =>
    LET w == SnapWorld(last.pre)
        a == last.self
        b == last.others[1]
    IN  values(World, last.dst)
          = values(difference(w, a, b), Local) \o values(difference(w, b, a), Local)

\* ----------------------------------------------------------------- C18
\* the values a traversal passed to its callback, in order
Visited(calls) == [i \in 1 .. Len(calls) |-> calls[i].value]

\* C18: values() and forEach visit the values in the order in which they
\* were added: after adding the pairwise unequal v0, ..., vn in that order,
\* the i-th value visited is vi.
C18_InsertionOrder ==
  /\ values(World, One) = ghost[One].ins
  /\ last.op = "forEach" => Visited(last.calls) = ghost[One].ins

\* ----------------------------------------------------------------- C19
\* s.add(v1); ...; s.add(vn), one call for each value
RECURSIVE AddEach(_, _, _)
AddEach(w, s, vals) ==
  IF vals = <<>> THEN w
  ELSE AddEach(add(w, s, <<Head(vals)>>), s, Tail(vals))

\* C19: add(v1, ..., vn) and new DeepSet(v1, ..., vn) give exactly the state
\* (buckets, members, size, iteration order) that add(v1); ...; add(vn) give
\* on the same container, respectively on a new empty one; equal values in
\* the input collapse to one entry.
C19_BulkIsOneAtATime ==
  last.op \in {"add", "new"} =>
    LET s == IF last.op = "new" THEN last.dst ELSE last.self
        start == IF last.op = "new"
                 THEN Bind(construct(SnapWorld(last.pre), <<>>), s)
                 ELSE SnapWorld(last.pre)
        each == AddEach(start, s, last.vals)
    IN  /\ Buckets(World, s) = Buckets(each, s)
        /\ values(World, s) = values(each, s)
        /\ Members(World, s) = Members(each, s)
        /\ size(World, s) = size(each, s)
        /\ Members(World, s) = Members(start, s) \cup Range(last.vals)
        /\ size(World, s) = Cardinality(Members(start, s) \cup Range(last.vals))

\* add(2, 0) to a container that holds 1: two values that collide, in an
\* order other than that of their magnitude
C19_Witness ==
  /\ last.op = "add" /\ last.vals = <<2, 0>>
  /\ SnapValues(last.pre[One]) = <<1>>
  /\ values(World, One) = <<1, 2, 0>>

\* ----------------------------------------------------------------- C20
\* one call for each recorded value, in values() order, with the indices
\* 0, 1, ... and the container
OncePerMember(b, s) ==
  [i \in 1 .. SnapSize(b) |-> Args(SnapValues(b)[i], i - 1, s)]

\* the position of the first value that the predicate cb answers with want,
\* or the number of values when there is none
Deciding(vals, cb, want) ==
  IF \E i \in 1 .. Len(vals) : (vals[i] \in cb) = want
  THEN CHOOSE i \in 1 .. Len(vals) :
         /\ (vals[i] \in cb) = want
         /\ \A j \in 1 .. (i - 1) : (vals[j] \in cb) # want
  ELSE Len(vals)

RECURSIVE Concat(_)
Concat(qs) == IF qs = <<>> THEN <<>> ELSE Head(qs) \o Concat(Tail(qs))

C21_OneBucketPerValue ==
  \A s \in Names :
    LET b == Buckets(World, s)
    IN  \A i \in 1 .. Len(b) :
          \A k \in 1 .. Len(b[i].vals) :
            /\ b[i].key = hashIt(b[i].vals[k])
            /\ \A j \in 1 .. Len(b) :
                 \A l \in 1 .. Len(b[j].vals) :
                   isEqual(b[j].vals[l], b[i].vals[k]) => (j = i /\ l = k)

\* a value was added to the clone of a container of two values: the clone has
\* two buckets, one of them with two colliding values
C21_Witness ==
  /\ last.prev.op = "clone" /\ last.prev.dst # last.prev.self
  /\ last.op = "add" /\ last.self = last.prev.dst
  /\ Len(sets[last.self]) = 2
  /\ size(World, last.self) = 3
  /\ size(World, last.prev.self) = 2

\* ----------------------------------------------------------------- C22
\* the hashes registered in recorded buckets b
SnapKeys(b) == {b[i].key : i \in 1 .. Len(b)}

\* C22: in every state reached by new, add, delete, clear and clone no
\* registered bucket is empty; a delete that removes the last value of a
\* bucket unregisters the bucket's hash; has() registers no bucket.
C22_NoEmptyBucket ==
  /\ \A s \in Names :
       \A i \in 1 .. Len(sets[s]) : Len(heap[sets[s][i].ref]) >= 1
  /\ (last.op = "delete" /\ last.ret) =>
       LET b == last.pre[last.self]
           hash == hashIt(last.vals[1])
       IN  (\E i \in 1 .. Len(b) : b[i].key = hash /\ Len(b[i].vals) = 1)
             => /\ ~MapHas(sets[last.self], hash)
                /\ SnapKeys(Buckets(World, last.self)) = SnapKeys(b) \ {hash}
  /\ last.op = "has" => Snapshot = last.pre

\* a delete has removed the only value of one of two buckets
C22_Witness ==
  /\ last.op = "delete" /\ last.ret
  /\ Len(last.pre[last.self]) = 2
  /\ Len(sets[last.self]) = 1
  /\ ~MapHas(sets[last.self], hashIt(last.vals[1]))
  /\ size(World, last.self) = 2

\* ----------------------------------------------------------------- C23
\* C23: a delete(v) that returns true removes the one stored value equal to v
\* and nothing else: the other members stay, those of v's hash too, size
\* falls by 1, and the iteration sequence is the former one without that
\* single element.
C23_DeleteRemovesOne ==
  (last.op = "delete" /\ last.ret) =>
    LET b == last.pre[last.self]
        v == last.vals[1]
    IN  /\ SnapHas(b, v)
        /\ Members(World, last.self) = SnapMembers(b) \ {v}
        /\ size(World, last.self) = SnapSize(b) - 1
        /\ values(World, last.self)
             = SelectSeq(SnapValues(b), LAMBDA x : ~isEqual(x, v))
        /\ Len(values(World, last.self)) = Len(SnapValues(b)) - 1
        /\ \A s \in Names \ {last.self} : Buckets(World, s) = last.pre[s]

\* 0 was deleted from a container that iterated 0, 2, 1: 2, which shares 0's
\* bucket, and 1 remain, in that order
C23_Witness ==
  /\ last.op = "delete" /\ last.ret /\ last.vals = <<0>>
  /\ SnapValues(last.pre[last.self]) = <<0, 2, 1>>
  /\ values(World, last.self) = <<2, 1>>

\* ----------------------------------------------------------------- C24
\* a delete(v) that returned true, then an add(w) of one value, on record
DeleteThenAdd ==
  /\ last.op = "add" /\ Len(last.vals) = 1
  /\ last.prev.op = "delete" /\ last.prev.ret
  /\ last.self = last.prev.self

\* the values recorded in b under hash
SnapBucket(b, hash) ==
  IF \E i \in 1 .. Len(b) : b[i].key = hash
  THEN b[CHOOSE i \in 1 .. Len(b) : b[i].key = hash].vals
  ELSE <<>>

C24_WitnessSameBucket ==
  /\ DeleteThenAdd
  /\ SnapValues(last.prev.pre[One]) = <<0, 2, 1>>
  /\ last.prev.vals = <<0>> /\ last.vals = <<0>>
  /\ values(World, One) = <<2, 0, 1>>

====
